---------------------------- MODULE Spec2Model ----------------------------
(***************************************************************************)
(* Model of the BOM upload page (src/src/pages/BOMUpload.tsx): the upload  *)
(* session (file selection, reconciliation against the catalog, review     *)
(* edits) and the commit loop of handleConfirm over the inventory store.   *)
(*                                                                         *)
(* Strings are sequences of one-character strings, so that toLowerCase,    *)
(* split(' ') and includes are computed rather than assumed.  Timestamps   *)
(* (createdAt, updatedAt) and variant ids (uuidv4) are not represented.    *)
(***************************************************************************)
EXTENDS Integers, Sequences, FiniteSets, TLC

(***************************************************************************)
(* Bounds of the model.                                                    *)
(***************************************************************************)
\* review edits, removals of a catalog item by another session and rejected
\* data-store calls in one behaviour, taken together
MaxDisturbances == 1
MaxId == 5            \* item ids are drawn from 1..MaxId
MaxUploads == 1       \* files selected in one behaviour

NoId == 0             \* matchedItemId: undefined

(***************************************************************************)
(* Strings.                                                                *)
(***************************************************************************)
Max(a, b) == IF a > b THEN a ELSE b

\* a string literal as the sequence of its characters
Chars(s) == [i \in 1..Len(s) |-> SubSeq(s, i, i)]

CharSet(s) == {SubSeq(s, i, i) : i \in 1..Len(s)}

LowerLetters == Chars("abcdefghijklmnopqrstuvwxyz")
UpperLetters == Chars("ABCDEFGHIJKLMNOPQRSTUVWXYZ")

Lower(c) ==
  IF \E i \in 1..26 : UpperLetters[i] = c
  THEN LowerLetters[CHOOSE i \in 1..26 : UpperLetters[i] = c]
  ELSE c

Upper(c) ==
  IF \E i \in 1..26 : LowerLetters[i] = c
  THEN UpperLetters[CHOOSE i \in 1..26 : LowerLetters[i] = c]
  ELSE c

toLowerCase(s) == [i \in 1..Len(s) |-> Lower(s[i])]

toUpperCase(s) == [i \in 1..Len(s) |-> Upper(s[i])]

\* String.prototype.substring(0, n)
substring0(s, n) == SubSeq(s, 1, IF Len(s) < n THEN Len(s) ELSE n)

\* String.prototype.includes: t occurs in s as a contiguous substring
includes(s, t) ==
  \E i \in 0..(Len(s) - Len(t)) : SubSeq(s, i + 1, i + Len(t)) = t

\* String.prototype.split(' '): the pieces between single spaces, empty
\* pieces kept; the empty string splits into one empty piece.
RECURSIVE splitFrom(_, _, _)
splitFrom(s, i, cur) ==
  IF i > Len(s) THEN <<cur>>
  ELSE IF s[i] = " " THEN <<cur>> \o splitFrom(s, i + 1, <<>>)
  ELSE splitFrom(s, i + 1, Append(cur, s[i]))

split(s) == splitFrom(s, 1, <<>>)

(***************************************************************************)
(* calculateSimilarity: the score is matches / max(#words), kept as the    *)
(* pair [num, den] so that "similarity > 0.7" is an integer comparison.    *)
(***************************************************************************)
calculateSimilarity(str1, str2) ==
  LET longer == IF Len(str1) > Len(str2) THEN str1 ELSE str2
      shorter == IF Len(str1) > Len(str2) THEN str2 ELSE str1
      shorterWords == split(shorter)
      longerWords == split(longer)
      matches == Cardinality({i \in 1..Len(shorterWords) :
                    \E j \in 1..Len(longerWords) :
                       \/ includes(longerWords[j], shorterWords[i])
                       \/ includes(shorterWords[i], longerWords[j])})
  IN  IF Len(longer) = 0 THEN [num |-> 1, den |-> 1]
      ELSE [num |-> matches,
            den |-> Max(Len(shorterWords), Len(longerWords))]

\* similarity > 0.7
AboveThreshold(sim) == sim.num * 10 > 7 * sim.den

(***************************************************************************)
(* matchWithExistingInventory: rows are BOMRow records, existingItems is   *)
(* what db.inventory.getAll() returned.                                    *)
(***************************************************************************)
\* mutant of ItemMatches: the names and SKUs are compared as they are
ItemMatchesCaseSensitive(item, existing) ==
  \/ item.name = existing.name
  \/ AboveThreshold(calculateSimilarity(item.name, existing.name))
  \/ /\ item.sku # <<>>
     /\ existing.sku # <<>>
     /\ item.sku = existing.sku

ItemMatches(item, existing) ==
  LET nameLower == toLowerCase(item.name)
      existingLower == toLowerCase(existing.name)
  IN  \/ nameLower = existingLower
      \/ AboveThreshold(calculateSimilarity(nameLower, existingLower))
      \/ /\ item.sku # <<>>
         /\ existing.sku # <<>>
         /\ toLowerCase(item.sku) = toLowerCase(existing.sku)

\* mutant of FindMatch: findLast
FindMatchLast(item, existingItems) ==
  LET hits == {k \in 1..Len(existingItems) : ItemMatches(item, existingItems[k])}
  IN  IF hits = {} THEN 0
      ELSE CHOOSE k \in hits : \A j \in hits : k >= j

\* Array.prototype.find: the index of the first element that satisfies the
\* predicate, 0 when there is none.
FindMatch(item, existingItems) ==
  LET hits == {k \in 1..Len(existingItems) : ItemMatches(item, existingItems[k])}
  IN  IF hits = {} THEN 0
      ELSE CHOOSE k \in hits : \A j \in hits : k <= j

MatchRow(item, existingItems) ==
  LET k == FindMatch(item, existingItems)
  IN  IF k > 0
      THEN [item EXCEPT !.matchedItemId = existingItems[k].id,
                        !.action = "update"]
      ELSE item

matchWithExistingInventory(items, existingItems) ==
  [i \in 1..Len(items) |-> MatchRow(items[i], existingItems)]

(***************************************************************************)
(* The data store (db.inventory of @/lib/database, outside src/): a store  *)
(* indexed by item id, getAll in key order, update with last-write-wins.   *)
(***************************************************************************)
NoItem == [id |-> NoId]

Ids(inv) == {inv[k].id : k \in 1..Len(inv)}

DbGet(inv, id) ==
  IF id \in Ids(inv)
  THEN inv[CHOOSE k \in 1..Len(inv) : inv[k].id = id]
  ELSE NoItem

\* the stored items with `it` put under its key, in key order
DbPut(inv, it) ==
  LET below == SelectSeq(inv, LAMBDA e : e.id < it.id)
      above == SelectSeq(inv, LAMBDA e : e.id > it.id)
  IN  below \o <<it>> \o above

DbDelete(inv, id) == SelectSeq(inv, LAMBDA e : e.id # id)

(***************************************************************************)
(* handleConfirm, per row.                                                 *)
(***************************************************************************)
\* row.action === 'update' && row.matchedItemId
TakesUpdateBranch(row) == row.action = "update" /\ row.matchedItemId # NoId

\* mutant of VariantIndex: findLastIndex
VariantIndexLast(variants, row) ==
  LET hits == {k \in 1..Len(variants) :
                 variants[k].size = row.size /\ variants[k].color = row.color}
  IN  IF hits = {} THEN 0
      ELSE CHOOSE k \in hits : \A j \in hits : k >= j

\* updatedVariants.findIndex(v => v.size === row.size && v.color === row.color),
\* 0 standing for -1
VariantIndex(variants, row) ==
  LET hits == {k \in 1..Len(variants) :
                 variants[k].size = row.size /\ variants[k].color = row.color}
  IN  IF hits = {} THEN 0
      ELSE CHOOSE k \in hits : \A j \in hits : k <= j

\* mutant of UpdatedVariants: the stock is set, not added to
UpdatedVariantsSet(variants, row) ==
  LET variantIndex == VariantIndex(variants, row)
  IN  IF variantIndex > 0
      THEN [variants EXCEPT ![variantIndex].stock = row.quantity]
      ELSE Append(variants,
                  [size |-> row.size, color |-> row.color, stock |-> row.quantity])

\* mutant of UpdatedVariants: a variant is pushed whether or not one is found
UpdatedVariantsPushed(variants, row) ==
  Append(variants,
         [size |-> row.size, color |-> row.color, stock |-> row.quantity])

UpdatedVariants(variants, row) ==
  LET variantIndex == VariantIndex(variants, row)
  IN  IF variantIndex > 0
      THEN [variants EXCEPT ![variantIndex].stock = @ + row.quantity]
      ELSE Append(variants,
                  [size |-> row.size, color |-> row.color, stock |-> row.quantity])

\* { ...existing, variants: updatedVariants, updatedAt }
UpdatedItem(existing, row) ==
  [existing EXCEPT !.variants = UpdatedVariants(existing.variants, row)]

\* mutant of RoundedMarkup: Math.floor
FlooredMarkup(unitCost) == (14 * unitCost) \div 10

\* Math.round(unitCost * 1.4) for an integer unitCost > 0
RoundedMarkup(unitCost) == (14 * unitCost + 5) \div 10

SellingPrice(unitCost) == IF unitCost > 0 THEN RoundedMarkup(unitCost) ELSE 0

\* row.sku || `${row.name.substring(0, 3).toUpperCase()}-${uuid prefix}`; the
\* random suffix is the one character "#"
NewSku(row) ==
  IF row.sku # <<>> THEN row.sku
  ELSE toUpperCase(substring0(row.name, 3)) \o <<"-", "#">>

DefaultCategory == "General"
DefaultTaxRate == 12
DefaultLowStockThreshold == 5

NewItem(row, id) ==
  [id |-> id,
   name |-> row.name,
   sku |-> NewSku(row),
   category |-> DefaultCategory,
   hsn |-> row.hsn,
   variants |-> <<[size |-> row.size, color |-> row.color, stock |-> row.quantity]>>,
   vendor |-> row.vendor,
   purchasePrice |-> row.unitCost,
   sellingPrice |-> SellingPrice(row.unitCost),
   taxRate |-> DefaultTaxRate,
   lowStockThreshold |-> DefaultLowStockThreshold]

\* mutant of NotIgnored: no filter
NotFiltered(rows) == rows

\* parsedRows.filter(row => row.action !== 'ignore')
NotIgnored(rows) == SelectSeq(rows, LAMBDA r : r.action # "ignore")

(***************************************************************************)
(* Regular expressions as the parser uses them.  A pattern is a tree of    *)
(* nodes; M gives the ends of the matches of a node that start at position *)
(* i, in the order in which a backtracking matcher tries them (greedy      *)
(* repetition, alternatives left to right), each with the span of the      *)
(* first capture group.  The rupee sign and the long dashes are characters *)
(* of their own.                                                           *)
(***************************************************************************)
Rupee == "rupee sign"
EnDash == "en dash"
EmDash == "em dash"

Digit == CharSet("0123456789")                                   \* \d
Space == CharSet(" \t\n\r\f")                                    \* \s
WordChar ==                                                      \* \w
  {LowerLetters[i] : i \in 1..26} \cup {UpperLetters[i] : i \in 1..26}
    \cup Digit \cup {"_"}

Ch(set) == [k |-> "ch", set |-> set]                   \* [...]
Cat(ps) == [k |-> "seq", ps |-> ps]                    \* p1 p2 ...
Alt(ps) == [k |-> "alt", ps |-> ps]                    \* a|b
Rep(p, min, max) == [k |-> "rep", p |-> p, min |-> min, max |-> max]
Opt(p) == Rep(p, 0, 1)                                 \* p?
Star(p) == Rep(p, 0, -1)                               \* p*
Plus(p) == Rep(p, 1, -1)                               \* p+
Grp(p) == [k |-> "grp", p |-> p]                       \* the first (...)
At(where) == [k |-> where]                             \* "bol" ^, "eol" $, "wb" \b
Text(cs) == Cat([i \in 1..Len(cs) |-> Ch({cs[i]})])    \* the characters cs
Lit(str) == Text(Chars(str))
Words(ws) == Alt([i \in 1..Len(ws) |-> Lit(ws[i])])    \* w1|w2|...

\* a regular expression literal: its pattern and its i flag
Re(node, ignoreCase) == [node |-> node, ignoreCase |-> ignoreCase]

RECURSIVE Flat(_)
Flat(ss) == IF Len(ss) = 0 THEN <<>> ELSE Head(ss) \o Flat(Tail(ss))

RECURSIVE M(_, _, _, _)
RECURSIVE MSeq(_, _, _, _, _)
RECURSIVE MRep(_, _, _, _, _)
M(node, s, i, c) ==
  LET here == <<[e |-> i, c |-> c]>>
      isWord(j) == j >= 1 /\ j <= Len(s) /\ s[j] \in WordChar
      captured(rs) == [k \in 1..Len(rs) |-> [e |-> rs[k].e, c |-> <<i, rs[k].e - 1>>]]
  IN  CASE node.k = "ch" ->
             IF i <= Len(s) /\ s[i] \in node.set
             THEN <<[e |-> i + 1, c |-> c]>> ELSE <<>>
        [] node.k = "bol" -> IF i = 1 THEN here ELSE <<>>
        [] node.k = "eol" -> IF i = Len(s) + 1 THEN here ELSE <<>>
        [] node.k = "wb" -> IF isWord(i - 1) # isWord(i) THEN here ELSE <<>>
        [] node.k = "seq" -> MSeq(node.ps, 1, s, i, c)
        [] node.k = "alt" ->
             Flat([k \in 1..Len(node.ps) |-> M(node.ps[k], s, i, c)])
        [] node.k = "rep" -> MRep(node, 0, s, i, c)
        [] node.k = "grp" -> captured(M(node.p, s, i, c))

MSeq(ps, k, s, i, c) ==
  LET rest(rs) == Flat([j \in 1..Len(rs) |-> MSeq(ps, k + 1, s, rs[j].e, rs[j].c)])
  IN  IF k > Len(ps) THEN <<[e |-> i, c |-> c]>>
      ELSE rest(M(ps[k], s, i, c))

MRep(node, n, s, i, c) ==
  LET more(rs) == Flat([j \in 1..Len(rs) |-> MRep(node, n + 1, s, rs[j].e, rs[j].c)])
      stop == IF n >= node.min THEN <<[e |-> i, c |-> c]>> ELSE <<>>
  IN  more(IF node.max = -1 \/ n < node.max
           THEN SelectSeq(M(node.p, s, i, c), LAMBDA r : r.e > i)
           ELSE <<>>) \o stop

\* RegExp.prototype.exec from position `from` on: the leftmost match, as
\* [found, index, end (the position after the match), m0 (match[0]),
\* m1 (match[1])]
NoMatch == [found |-> FALSE, index |-> 0, end |-> 0, m0 |-> <<>>, m1 |-> <<>>]

exec(re, s, from) ==
  LET match(i, r) ==
        [found |-> TRUE, index |-> i, end |-> r.e,
         m0 |-> SubSeq(s, i, r.e - 1),
         m1 |-> IF r.c = <<>> THEN <<>> ELSE SubSeq(s, r.c[1], r.c[2])]
      matchAt(t, i) == match(i, Head(M(re.node, t, i, <<>>)))
      leftmost(t, starts) ==
        IF starts = {} THEN NoMatch
        ELSE matchAt(t, CHOOSE x \in starts : \A y \in starts : x <= y)
      search(t) ==
        leftmost(t, {i \in from..(Len(s) + 1) : Len(M(re.node, t, i, <<>>)) > 0})
  IN  search(IF re.ignoreCase THEN toLowerCase(s) ELSE s)

(***************************************************************************)
(* The string and number functions of the language that the page uses.     *)
(***************************************************************************)
\* String.prototype.trim
trim(s) ==
  LET ink == {i \in 1..Len(s) : s[i] \notin Space}
  IN  IF ink = {} THEN <<>>
      ELSE SubSeq(s, CHOOSE i \in ink : \A j \in ink : i <= j,
                     CHOOSE i \in ink : \A j \in ink : i >= j)

\* String.prototype.replace with a string pattern: its first occurrence
replace(s, pat, by) ==
  LET at == {i \in 1..(Len(s) - Len(pat) + 1) : SubSeq(s, i, i + Len(pat) - 1) = pat}
  IN  IF at = {} THEN s
      ELSE LET i == CHOOSE x \in at : \A y \in at : x <= y
           IN  SubSeq(s, 1, i - 1) \o by \o SubSeq(s, i + Len(pat), Len(s))

\* String.prototype.replace with a regular expression that has the g flag,
\* for the part of s from position `from` on
RECURSIVE replaceAll(_, _, _, _)
replaceAll(s, re, by, from) ==
  LET replaced(m) ==
        IF ~m.found THEN SubSeq(s, from, Len(s))
        ELSE SubSeq(s, from, m.index - 1) \o by \o
             (IF m.end > m.index THEN replaceAll(s, re, by, m.end)
              ELSE IF m.index > Len(s) THEN <<>>
              ELSE <<s[m.index]>> \o replaceAll(s, re, by, m.index + 1))
  IN  replaced(exec(re, s, from))

DigitValue(c) == CHOOSE d \in 0..9 : Chars("0123456789")[d + 1] = c

RECURSIVE Decimal(_)
Decimal(ds) ==
  IF Len(ds) = 0 THEN 0
  ELSE 10 * Decimal(SubSeq(ds, 1, Len(ds) - 1)) + DigitValue(ds[Len(ds)])

\* numbers are [nan, n]: NaN, or the integer n
NaN == [nan |-> TRUE, n |-> 0]

\* parseInt of a string: leading white space, a sign, decimal digits
parseInt(s) ==
  LET number(m) ==
        IF ~m.found THEN NaN
        ELSE [nan |-> FALSE,
              n |-> IF \E i \in 1..Len(m.m0) : m.m0[i] = "-"
                    THEN 0 - Decimal(m.m1) ELSE Decimal(m.m1)]
  IN  number(exec(Re(Cat(<<At("bol"), Star(Ch(Space)), Opt(Ch({"+", "-"})),
                           Grp(Plus(Ch(Digit)))>>), FALSE), s, 1))

\* parseFloat of a string; the numerals of the model have no fraction and no
\* exponent, and on those parseFloat reads what parseInt reads
parseFloat(s) == parseInt(s)

\* number || fallback: NaN and 0 are falsy
OrElse(v, fallback) == IF v.nan \/ v.n = 0 THEN fallback ELSE v.n

\* text.split(/[\n\r]+/)
RECURSIVE splitLines(_, _, _)
splitLines(s, i, cur) ==
  IF i > Len(s) THEN <<cur>>
  ELSE IF s[i] \in {"\n", "\r"}
       THEN LET rest == {j \in i..Len(s) : s[j] \notin {"\n", "\r"}}
            IN  <<cur>> \o splitLines(s, IF rest = {} THEN Len(s) + 1
                                         ELSE CHOOSE j \in rest : \A x \in rest : j <= x,
                                      <<>>)
       ELSE splitLines(s, i + 1, Append(cur, s[i]))

(***************************************************************************)
(* intelligentItemParser.  The random suffix of the SKU is the one         *)
(* character "#".                                                          *)
(***************************************************************************)
\* /^(item|name|product|description|sr\.?no|s\.?no|#)/i and
\* /^(total|subtotal|grand|tax|gst|discount)/i
headerPatterns ==
  <<Re(Cat(<<At("bol"),
             Alt(<<Lit("item"), Lit("name"), Lit("product"), Lit("description"),
                   Cat(<<Lit("sr"), Opt(Lit(".")), Lit("no")>>),
                   Cat(<<Lit("s"), Opt(Lit(".")), Lit("no")>>), Lit("#")>>)>>),
       TRUE),
    Re(Cat(<<At("bol"),
             Words(<<"total", "subtotal", "grand", "tax", "gst", "discount">>)>>),
       TRUE)>>

Digits == Plus(Ch(Digit))                              \* \d+
Spaces == Star(Ch(Space))                              \* \s*
Label(word) == Cat(<<Lit(word), Star(Ch({":"} \cup Space))>>)   \* word[:\s]*

qtyPatterns ==
  <<\* /(\d+)\s*(pcs?|pieces?|nos?|units?|qty)/i
    Re(Cat(<<Grp(Digits), Spaces,
             Alt(<<Cat(<<Lit("pc"), Opt(Lit("s"))>>),
                   Cat(<<Lit("piece"), Opt(Lit("s"))>>),
                   Cat(<<Lit("no"), Opt(Lit("s"))>>),
                   Cat(<<Lit("unit"), Opt(Lit("s"))>>), Lit("qty")>>)>>), TRUE),
    \* /qty[:\s]*(\d+)/i
    Re(Cat(<<Label("qty"), Grp(Digits)>>), TRUE),
    \* /^(\d+)\s+/
    Re(Cat(<<At("bol"), Grp(Digits), Plus(Ch(Space))>>), FALSE),
    \* /x\s*(\d+)/i
    Re(Cat(<<Lit("x"), Spaces, Grp(Digits)>>), TRUE),
    \* /(\d+)\s*$/
    Re(Cat(<<Grp(Digits), Spaces, At("eol")>>), FALSE)>>

\* (\d+(?:,\d+)?(?:\.\d+)?)
Amount ==
  Grp(Cat(<<Digits, Opt(Cat(<<Lit(","), Digits>>)), Opt(Cat(<<Lit("."), Digits>>))>>))

\* rs\.?|<rupee sign>|inr
Currency == <<Cat(<<Lit("rs"), Opt(Lit("."))>>), Ch({Rupee}), Lit("inr")>>

pricePatterns ==
  <<\* /(?:rs\.?|<rupee sign>|inr)\s*(amount)/i
    Re(Cat(<<Alt(Currency), Spaces, Amount>>), TRUE),
    \* /@\s*(amount)/
    Re(Cat(<<Lit("@"), Spaces, Amount>>), FALSE),
    \* /(amount)\s*(?:rs\.?|<rupee sign>|inr|each|per)/i
    Re(Cat(<<Amount, Spaces, Alt(Currency \o <<Lit("each"), Lit("per")>>)>>), TRUE),
    \* /price[:\s]*(amount)/i, /rate[:\s]*(amount)/i, /cost[:\s]*(amount)/i
    Re(Cat(<<Label("price"), Amount>>), TRUE),
    Re(Cat(<<Label("rate"), Amount>>), TRUE),
    Re(Cat(<<Label("cost"), Amount>>), TRUE)>>

sizePatterns ==
  <<\* /\b(xxs|xs|s|m|l|xl|xxl|xxxl|2xl|3xl|4xl)\b/i
    Re(Cat(<<At("wb"),
             Grp(Words(<<"xxs", "xs", "s", "m", "l", "xl", "xxl", "xxxl", "2xl",
                         "3xl", "4xl">>)),
             At("wb")>>), TRUE),
    \* /size[:\s]*([\w]+)/i
    Re(Cat(<<Label("size"), Grp(Plus(Ch(WordChar)))>>), TRUE),
    \* /\b(\d{2})\b/
    Re(Cat(<<At("wb"), Grp(Rep(Ch(Digit), 2, 2)), At("wb")>>), FALSE)>>

colorPatterns ==
  <<\* /\b(red|blue|...|silver)\b/i
    Re(Cat(<<At("wb"),
             Grp(Words(<<"red", "blue", "green", "yellow", "black", "white", "pink",
                         "purple", "orange", "brown", "grey", "gray", "navy",
                         "maroon", "beige", "cream", "gold", "silver">>)),
             At("wb")>>), TRUE),
    \* /color[:\s]*([\w]+)/i, /colour[:\s]*([\w]+)/i
    Re(Cat(<<Label("color"), Grp(Plus(Ch(WordChar)))>>), TRUE),
    Re(Cat(<<Label("colour"), Grp(Plus(Ch(WordChar)))>>), TRUE)>>

\* mutant of FirstMatch: the loop does not break, the last pattern that
\* matches wins
LastMatch(patterns, cleanLine) ==
  LET last(hits) ==
        IF hits = {} THEN NoMatch
        ELSE exec(patterns[CHOOSE k \in hits : \A j \in hits : k >= j], cleanLine, 1)
  IN  last({k \in 1..Len(patterns) : exec(patterns[k], cleanLine, 1).found})

\* for (const pattern of patterns) { const match = cleanLine.match(pattern);
\* if (match) { ...; break; } }: the match of the first pattern that matches
FirstMatch(patterns, cleanLine) ==
  LET first(hits) ==
        IF hits = {} THEN NoMatch
        ELSE exec(patterns[CHOOSE k \in hits : \A j \in hits : k <= j], cleanLine, 1)
  IN  first({k \in 1..Len(patterns) : exec(patterns[k], cleanLine, 1).found})

\* .replace(/[-<en dash><em dash>]/g, ' ').replace(/\s+/g, ' ')
\* .replace(/[,;:@#$%^&*()]/g, ' ').trim()
CleanUp(itemName) ==
  LET dashes == Re(Ch({"-", EnDash, EmDash}), FALSE)
      blanks == Re(Plus(Ch(Space)), FALSE)
      marks == Re(Ch(CharSet(",;:@#$%^&*()")), FALSE)
  IN  trim(replaceAll(replaceAll(replaceAll(itemName, dashes, <<" ">>, 1),
                                 blanks, <<" ">>, 1),
                      marks, <<" ">>, 1))

\* if (token) itemName = itemName.replace(new RegExp(`\\b${token}\\b`, 'gi'), '').trim()
RemoveToken(itemName, token) ==
  IF token = <<>> THEN itemName
  ELSE trim(replaceAll(itemName,
                       Re(Cat(<<At("wb"), Text(toLowerCase(token)), At("wb")>>), TRUE),
                       <<>>, 1))

\* if (match) itemName = itemName.replace(match[0], ' ').trim()
Cut(itemName, match) ==
  IF match.found THEN trim(replace(itemName, match.m0, <<" ">>)) ELSE itemName

\* a BOMRow as both parsers build it: no vendor, no hsn unless given, action
\* 'create', matchedItemId undefined
Row(name, quantity, unitCost, sku, size, color) ==
  [name |-> name, quantity |-> quantity, unitCost |-> unitCost, sku |-> sku,
   size |-> size, color |-> color, vendor |-> <<>>, hsn |-> <<>>,
   action |-> "create", matchedItemId |-> NoId]

\* the end of the loop body: whether the line is skipped (continue), and the
\* row pushed otherwise
Push(header, itemName, quantity, unitCost, size, color) ==
  LET sku == toUpperCase(substring0(itemName, 3)) \o <<"-">>
               \o (IF size # <<>> THEN size ELSE Chars("STD")) \o <<"-", "#">>
  IN  [skip |-> \/ header
                \/ Len(itemName) < 2
                \/ \A i \in 1..Len(itemName) : itemName[i] \in Digit,
       row |-> Row(itemName, quantity, unitCost, sku, size, color)]

\* the body of the loop for one line
ParseLine(line) ==
  LET sizeOf(match) == IF match.found THEN toUpperCase(match.m1) ELSE <<>>
      colorOf(match) ==
        IF match.found
        THEN <<Upper(Head(match.m1))>> \o toLowerCase(Tail(match.m1))
        ELSE <<>>
      quantityOf(match) == IF match.found THEN OrElse(parseInt(match.m1), 1) ELSE 1
      unitCostOf(match) ==
        IF match.found
        THEN OrElse(parseFloat(SelectSeq(match.m1, LAMBDA ch : ch # ",")), 0)
        ELSE 0
      build(cleanLine, qty, price, size, color) ==
        Push(\/ exec(headerPatterns[1], cleanLine, 1).found
             \/ exec(headerPatterns[2], cleanLine, 1).found,
             RemoveToken(RemoveToken(CleanUp(Cut(Cut(cleanLine, qty), price)), size),
                         color),
             quantityOf(qty), unitCostOf(price), size, color)
      scan(cleanLine) ==
        build(cleanLine,
              FirstMatch(qtyPatterns, cleanLine),
              FirstMatch(pricePatterns, cleanLine),
              sizeOf(FirstMatch(sizePatterns, cleanLine)),
              colorOf(FirstMatch(colorPatterns, cleanLine)))
  IN  scan(trim(line))

intelligentItemParser(text) ==
  LET lines == SelectSeq(splitLines(text, 1, <<>>), LAMBDA line : trim(line) # <<>>)
      parsed == [i \in 1..Len(lines) |-> ParseLine(lines[i])]
      pushed == SelectSeq(parsed, LAMBDA r : ~r.skip)
  IN  [i \in 1..Len(pushed) |-> pushed[i].row]

(***************************************************************************)
(* parseSpreadsheet: the column mapping.  A cell of a sheet row is a       *)
(* string, a number, or undefined when the row has no such column.         *)
(***************************************************************************)
Str(s) == [t |-> "string", s |-> Chars(s), n |-> 0]
Num(n) == [t |-> "number", s |-> <<>>, n |-> n]

Truthy(v) == (v.t = "string" /\ v.s # <<>>) \/ (v.t = "number" /\ v.n # 0)

\* Number.prototype.toString of an integer
RECURSIVE Numeral(_)
Numeral(n) ==
  IF n < 0 THEN <<"-">> \o Numeral(0 - n)
  ELSE IF n < 10 THEN <<Chars("0123456789")[n + 1]>>
  ELSE Numeral(n \div 10) \o <<Chars("0123456789")[(n % 10) + 1]>>

toString(v) == IF v.t = "string" THEN v.s ELSE Numeral(v.n)

\* the accepted headers of each field, in the order in which they are tried
Columns ==
  [name |-> <<"Item Name", "Name", "Product", "Description", "Item",
              "ProductName", "ITEM", "NAME">>,
   qty |-> <<"Qty", "Quantity", "Units", "QTY", "QUANTITY", "Pcs", "PCS">>,
   cost |-> <<"Cost", "Price", "Unit Price", "Rate", "COST", "PRICE", "MRP",
              "Amount">>,
   sku |-> <<"SKU", "Item Code", "Code", "SKU Code">>,
   size |-> <<"Size", "SIZE">>,
   color |-> <<"Color", "Colour", "COLOR">>,
   vendor |-> <<"Vendor", "Supplier", "VENDOR">>,
   hsn |-> <<"HSN", "HSN Code", "HSN_CODE">>]

\* row[h1] || row[h2] || ... || fallback
FirstOf(row, headers, fallback) ==
  LET hits == {k \in 1..Len(headers) :
                 headers[k] \in DOMAIN row /\ Truthy(row[headers[k]])}
  IN  IF hits = {} THEN Str(fallback)
      ELSE row[headers[CHOOSE k \in hits : \A j \in hits : k <= j]]

\* the callback of jsonData.map
MapRow(row) ==
  LET qty == parseInt(toString(FirstOf(row, Columns.qty, "1")))
      cost == parseFloat(toString(FirstOf(row, Columns.cost, "0")))
  IN  [name |-> trim(toString(FirstOf(row, Columns.name, ""))),
       quantity |-> IF qty.nan THEN 1 ELSE qty.n,
       unitCost |-> IF cost.nan THEN 0 ELSE cost.n,
       sku |-> toString(FirstOf(row, Columns.sku, "")),
       size |-> toString(FirstOf(row, Columns.size, "")),
       color |-> toString(FirstOf(row, Columns.color, "")),
       vendor |-> toString(FirstOf(row, Columns.vendor, "")),
       hsn |-> toString(FirstOf(row, Columns.hsn, "")),
       action |-> "create",
       matchedItemId |-> NoId]

\* jsonData.map(...).filter(row => row.name && row.name.length > 1)
ColumnRows(jsonData) ==
  SelectSeq([i \in 1..Len(jsonData) |-> MapRow(jsonData[i])],
            LAMBDA row : row.name # <<>> /\ Len(row.name) > 1)

\* the rows parseSpreadsheet hands to the matcher
SheetRows(jsonData, rawText) ==
  IF Len(ColumnRows(jsonData)) = 0 THEN intelligentItemParser(rawText)
  ELSE ColumnRows(jsonData)

\* file.name.split('.').pop().toLowerCase()
Extension(name) ==
  LET dots == {i \in 1..Len(name) : SubSeq(name, i, i) = "."}
      last == IF dots = {} THEN 0 ELSE CHOOSE i \in dots : \A j \in dots : i >= j
  IN  toLowerCase(SubSeq(Chars(name), last + 1, Len(name)))

\* extension === 'csv' || extension === 'xlsx' || extension === 'xls'
IsSpreadsheet(name) ==
  Extension(name) \in {Chars("csv"), Chars("xlsx"), Chars("xls")}

(***************************************************************************)
(* Inputs: the catalogs a behaviour may start from, and the files the user *)
(* may select.  A file carries what decoding it gives: the rows of its     *)
(* first sheet (sheet_to_json) and the sheet's text (sheet_to_txt).  PDF   *)
(* and image files are not among the files selected.                       *)
(***************************************************************************)
Variant(size, color, stock) == [size |-> size, color |-> color, stock |-> stock]

Item(id, name, sku, variants) ==
  [id |-> id, name |-> name, sku |-> sku, category |-> "Apparel", hsn |-> <<>>,
   variants |-> variants, vendor |-> <<>>, purchasePrice |-> 10,
   sellingPrice |-> 14, taxRate |-> 5, lowStockThreshold |-> 2]

ItemAbc == Item(1, <<"A", "b", "c">>, <<"S", "1">>, <<Variant(<<"M">>, <<"R", "e", "d">>, 5)>>)
ItemAb == Item(2, <<"A", "b">>, <<>>,
               <<Variant(<<"L">>, <<>>, 1), Variant(<<"M">>, <<"R", "e", "d">>, 3)>>)
ItemAbDup == Item(3, <<"A", "b">>, <<>>,
                  <<Variant(<<"M">>, <<"R", "e", "d">>, 3), Variant(<<"L">>, <<>>, 1),
                    Variant(<<"M">>, <<"R", "e", "d">>, 7)>>)

Catalogs == {<<>>, <<ItemAbc, ItemAb>>, <<ItemAbDup>>}

\* the rows sheet_to_json gives: a row maps column headers to cells
JsonPool ==
  {("Item Name" :> Str("ab")) @@ ("Qty" :> Num(2)) @@ ("Price" :> Num(4))
     @@ ("Size" :> Str("M")) @@ ("Color" :> Str("Red")),
   ("Name" :> Str(" ab ")) @@ ("Qty" :> Num(0)) @@ ("Cost" :> Str("n/a"))
     @@ ("Size" :> Str("L")),
   ("Item Name" :> Str("")) @@ ("ITEM" :> Str("ab x")) @@ ("QTY" :> Num(-1))
     @@ ("PRICE" :> Str("-1")) @@ ("SKU" :> Str("s1"))}

Sheet(name, json, text) ==
  [name |-> name, corrupt |-> FALSE, json |-> json, text |-> Chars(text)]

\* sheets whose rows the column mapping takes; their text is not read
SheetFiles ==
  {Sheet("bom.csv", json, "") :
     json \in {<<r>> : r \in JsonPool}
              \cup {<<r1, r2>> : r1 \in JsonPool, r2 \in JsonPool}}

\* sheets of which the column mapping takes no row: one line of text and no
\* row, and a one-letter name under the header Name
TextFiles ==
  {Sheet("list.xls", <<>>, "1. Blue Jeans Size 32 - Qty 10 - Rs.850"),
   Sheet("short.CSV", <<("Name" :> Str("x"))>>, "Name\nx")}

\* a file that cannot be decoded
CorruptFile == [Sheet("bad.xlsx", <<>>, "") EXCEPT !.corrupt = TRUE]

\* a file that is neither a sheet nor a PDF nor an image
OtherFile == Sheet("notes.txt", <<>>, "")

Files == SheetFiles \cup TextFiles \cup {CorruptFile, OtherFile}

\* the rows parseSpreadsheet hands to the matcher, for each file
RowsOf == [f \in Files |-> SheetRows(f.json, f.text)]

Actions == {"create", "update", "ignore"}

\* what the user may type into the editor's inputs; a number input that does
\* not hold a number (an empty one) is not valid
NameInputs == {<<"x", "y">>}
NumberInputs ==
  {[valid |-> FALSE, n |-> 0], [valid |-> TRUE, n |-> 0],
   [valid |-> TRUE, n |-> -2]}
SizeInputs == {<<"L">>}

\* parseInt(e.target.value) || 1
ParsedQuantity(v) == IF ~v.valid \/ v.n = 0 THEN 1 ELSE v.n

\* parseFloat(e.target.value) || 0
ParsedCost(v) == IF ~v.valid THEN 0 ELSE v.n

(***************************************************************************)
(* State.                                                                  *)
(***************************************************************************)
VARIABLES
  inventory,       \* the catalog: stored items in key order
  catalog0,        \* history: the catalog the behaviour started from
  deletedIds,      \* history: ids removed from the catalog by another session
  faults,          \* history: data-store calls that rejected
  route,           \* "upload" while the page is mounted
  step,            \* UploadStep
  parsedRows,
  isProcessing,
  fileName,
  editingIndex,    \* 0 for null
  edits,           \* history: review edits made
  uploads,         \* history: files selected
  upc,             \* handleFileSelect: "idle", "decode" or "getAll"
  ufile,           \* the file being parsed
  urows,           \* the decoded rows awaiting reconciliation
  cpc,             \* handleConfirm: "idle", "get", "update" or "add"
  itemsToProcess,
  ci,              \* the loop's position in itemsToProcess
  created,
  updated,
  existing,        \* what db.inventory.get returned for the current row
  req,             \* the data-store call handleConfirm awaits
  confirms,        \* history: handleConfirm invocations
  startInventory,  \* history: the catalog when handleConfirm was invoked
  startRows,       \* history: parsedRows when handleConfirm was invoked
  toasts,          \* notifications raised since the last handler started
  applied,         \* history: the rows whose catalog write completed
  selected,        \* history: parsedRows, fileName and step when the file
                   \* of a handleFileSelect was selected, until it succeeds
  simCall,         \* calculateSimilarity: the arguments and the scores
  parseCall,       \* intelligentItemParser: the text and the rows returned
  invoices,        \* Dashboard: what db.invoices.getAll() returns
  today,           \* Dashboard: local midnight of the day it is loaded
  summary,         \* Dashboard state; "null" until it is set
  recentInvoices,  \* Dashboard state
  topSellingItems, \* Dashboard state
  isLoading        \* Dashboard state

vars ==
  <<inventory, catalog0, deletedIds, faults, route, step, parsedRows,
    isProcessing, fileName, editingIndex, edits, uploads, upc, ufile, urows, cpc,
    itemsToProcess, ci, created, updated, existing, req, confirms,
    startInventory, startRows, toasts, applied, selected, simCall, parseCall,
    invoices, today, summary, recentInvoices, topSellingItems, isLoading>>

storeVars == <<inventory, deletedIds>>
pageVars ==
  <<route, step, parsedRows, fileName, editingIndex, edits, uploads, selected>>
uploadVars == <<upc, ufile, urows>>
commitVars ==
  <<cpc, itemsToProcess, ci, created, updated, existing, req, confirms,
    startInventory, startRows, applied>>

dashVars ==
  <<invoices, today, summary, recentInvoices, topSellingItems, isLoading>>

\* what no handler of the upload page changes
offPageVars == <<catalog0, simCall, parseCall, dashVars>>

Disturbances == edits + faults + Cardinality(deletedIds)

Toast(kind, msg, c, u) == [kind |-> kind, msg |-> msg, created |-> c, updated |-> u]

\* scores of calculateSimilarity are pairs [num, den]; NoScore stands for none
NoScore == [num |-> 0, den |-> 0]

NoSimCall ==
  [pc |-> "idle", str1 |-> <<>>, str2 |-> <<>>,
   forward |-> NoScore, backward |-> NoScore]

NoParseCall ==
  [pc |-> "idle", n |-> 0, unit |-> <<>>, name |-> <<>>, price |-> 0,
   text |-> <<>>, items |-> <<>>]

\* the Dashboard before it is mounted: its useState initial values
DashboardInit ==
  /\ invoices = <<>>
  /\ today = 0
  /\ summary = "null"
  /\ recentInvoices = <<>>
  /\ topSellingItems = <<>>
  /\ isLoading = TRUE

\* the upload page as mounted, over one of the given catalogs
PageInit(catalogs) ==
  /\ inventory \in catalogs
  /\ catalog0 = inventory
  /\ deletedIds = {}
  /\ faults = 0
  /\ route = "upload"
  /\ step = "select"
  /\ parsedRows = <<>>
  /\ isProcessing = FALSE
  /\ fileName = ""
  /\ editingIndex = 0
  /\ edits = 0
  /\ uploads = 0
  /\ upc = "idle"
  /\ ufile = OtherFile
  /\ urows = <<>>
  /\ cpc = "idle"
  /\ itemsToProcess = <<>>
  /\ ci = 0
  /\ created = 0
  /\ updated = 0
  /\ existing = NoItem
  /\ req = NoItem
  /\ confirms = 0
  /\ startInventory = <<>>
  /\ startRows = <<>>
  /\ toasts = <<>>
  /\ applied = <<>>
  /\ selected = [parsedRows |-> <<>>, fileName |-> "", step |-> "select"]

Init ==
  /\ PageInit(Catalogs)
  /\ simCall = NoSimCall
  /\ parseCall = NoParseCall
  /\ DashboardInit

(***************************************************************************)
(* handleFileSelect, parseSpreadsheet.  The file input is rendered at step *)
(* 'select' only, and the processing overlay covers the page there while   *)
(* isProcessing holds.                                                     *)
(***************************************************************************)
FileSelect(f) ==
  /\ route = "upload" /\ step = "select" /\ ~isProcessing /\ upc = "idle"
  /\ uploads < MaxUploads
  /\ uploads' = uploads + 1
  /\ selected' = [parsedRows |-> parsedRows, fileName |-> fileName, step |-> step]
  /\ fileName' = f.name
  /\ IF IsSpreadsheet(f.name)
     THEN /\ isProcessing' = TRUE
          /\ upc' = "decode"
          /\ ufile' = f
          /\ toasts' = <<>>
          /\ UNCHANGED urows
     ELSE /\ toasts' = <<Toast("error", "unsupported", 0, 0)>>
          /\ isProcessing' = FALSE
          /\ UNCHANGED uploadVars
  /\ UNCHANGED <<route, step, parsedRows, editingIndex, edits>>
  /\ UNCHANGED <<storeVars, offPageVars, faults, commitVars>>

\* file.arrayBuffer(), XLSX.read and the column mapping succeed; getAll is called
DecodeResolve ==
  /\ upc = "decode" /\ ~ufile.corrupt
  /\ urows' = RowsOf[ufile]
  /\ upc' = "getAll"
  /\ UNCHANGED <<ufile, toasts, isProcessing>>
  /\ UNCHANGED <<storeVars, offPageVars, faults, pageVars, commitVars>>

\* decoding throws: catch, finally
DecodeReject ==
  /\ upc = "decode" /\ ufile.corrupt
  /\ toasts' = Append(toasts, Toast("error", "parsing", 0, 0))
  /\ isProcessing' = FALSE
  /\ upc' = "idle"
  /\ ufile' = OtherFile
  /\ urows' = <<>>
  /\ UNCHANGED <<storeVars, offPageVars, faults, pageVars, commitVars>>

\* getAll resolves: the rows are matched, stored, and the wizard moves on
GetAllResolve ==
  /\ upc = "getAll"
  /\ parsedRows' = matchWithExistingInventory(urows, inventory)
  /\ step' = "mapping"
  /\ toasts' = Append(toasts, Toast("success", "found", Len(urows), 0))
  /\ isProcessing' = FALSE
  /\ upc' = "idle"
  /\ ufile' = OtherFile
  /\ urows' = <<>>
  /\ selected' = [parsedRows |-> <<>>, fileName |-> "", step |-> "select"]
  /\ UNCHANGED <<route, fileName, editingIndex, edits, uploads>>
  /\ UNCHANGED <<storeVars, offPageVars, faults, commitVars>>

GetAllReject ==
  /\ upc = "getAll" /\ Disturbances < MaxDisturbances
  /\ faults' = faults + 1
  /\ toasts' = Append(toasts, Toast("error", "parsing", 0, 0))
  /\ isProcessing' = FALSE
  /\ upc' = "idle"
  /\ ufile' = OtherFile
  /\ urows' = <<>>
  /\ UNCHANGED <<storeVars, offPageVars, pageVars, commitVars>>

(***************************************************************************)
(* The review list.                                                        *)
(***************************************************************************)
Reviewing == route = "upload" /\ step = "mapping"

\* Done Editing: setEditingIndex(null)
DoneEditing ==
  /\ Reviewing
  /\ editingIndex # 0
  /\ editingIndex' = 0
  /\ UNCHANGED <<route, step, parsedRows, fileName, edits, uploads, selected>>
  /\ UNCHANGED <<storeVars, offPageVars, faults, isProcessing, uploadVars,
                 commitVars, toasts>>

\* setParsedRows from the review list; a click or an input that leaves the
\* list as it is changes no state
SetRows(rows, editing) ==
  /\ Disturbances < MaxDisturbances
  /\ rows # parsedRows
  /\ parsedRows' = rows
  /\ editingIndex' = editing
  /\ edits' = edits + 1
  /\ UNCHANGED <<route, step, fileName, uploads, selected>>
  /\ UNCHANGED <<storeVars, offPageVars, faults, isProcessing, uploadVars,
                 commitVars, toasts>>

\* the three action buttons of a row that is not being edited
updateRowAction(index, action) ==
  /\ Reviewing /\ index \in 1..Len(parsedRows) /\ editingIndex # index
  /\ SetRows([parsedRows EXCEPT ![index].action = action], editingIndex)

\* the editor's inputs (name, quantity, price, size) of the row whose editor
\* is open; the row's Edit button, setEditingIndex(index), opens it
updateRowField(index, field, value) ==
  /\ Reviewing /\ index \in 1..Len(parsedRows)
  /\ SetRows([parsedRows EXCEPT ![index][field] = value], index)

EditField(index) ==
  \/ \E v \in NameInputs : updateRowField(index, "name", v)
  \/ \E v \in NumberInputs : updateRowField(index, "quantity", ParsedQuantity(v))
  \/ \E v \in NumberInputs : updateRowField(index, "unitCost", ParsedCost(v))
  \/ \E v \in SizeInputs : updateRowField(index, "size", v)

\* the header's back button and the Back button of the review step
Back ==
  /\ route = "upload"
  /\ IF step = "select"
     THEN ~isProcessing /\ route' = "left" /\ UNCHANGED step
     ELSE step' = "select" /\ UNCHANGED route
  /\ UNCHANGED <<parsedRows, fileName, editingIndex, edits, uploads, selected>>
  /\ UNCHANGED <<storeVars, offPageVars, faults, isProcessing, uploadVars,
                 commitVars, toasts>>

(***************************************************************************)
(* handleConfirm.  The handler runs from one await to the next in one      *)
(* step: ConfirmStart up to the first data-store call, each resolution up  *)
(* to the following call or the end of the loop.                           *)
(***************************************************************************)
\* ids never stored before, given the stored items inv
FreeIdsOf(inv) == (1..MaxId) \ (Ids(inv) \cup Ids(catalog0) \cup deletedIds)

FreeIds == FreeIdsOf(inventory)

\* uuidv4() for a new item's id, given the stored items inv: an id never stored
\* before; the model takes the least one
uuidv4(inv) ==
  CHOOSE id \in FreeIdsOf(inv) : \A other \in FreeIdsOf(inv) : id <= other

\* the loop from row k on, up to its next await, the catalog being inv; at the
\* end of the list the success notification, navigate('/inventory') and the
\* finally block
Proceed(k, items, cr, up, ts, inv) ==
  /\ ci' = k
  /\ created' = cr
  /\ updated' = up
  /\ IF k > Len(items)
     THEN /\ cpc' = "idle"
          /\ req' = NoItem
          /\ toasts' = Append(ts, Toast("success", "done", cr, up))
          /\ route' = "inventory"
          /\ isProcessing' = FALSE
     ELSE /\ IF TakesUpdateBranch(items[k])
             THEN /\ cpc' = "get"
                  /\ req' = [id |-> items[k].matchedItemId]
             ELSE /\ cpc' = "add"
                  /\ req' = NewItem(items[k], uuidv4(inv))
          /\ toasts' = ts
          /\ isProcessing' = TRUE
          /\ UNCHANGED route

\* mutant of ConfirmStart: a retry on the same list resumes at the row at
\* which the previous invocation failed
ConfirmStartResume ==
  /\ Reviewing /\ cpc = "idle"
  /\ ~isProcessing
  /\ Len(NotIgnored(parsedRows)) # 0
  /\ Cardinality(FreeIds)
       >= Len(SelectSeq(NotIgnored(parsedRows), LAMBDA r : ~TakesUpdateBranch(r)))
  /\ itemsToProcess' = NotIgnored(parsedRows)
  /\ confirms' = confirms + 1
  /\ startInventory' = inventory
  /\ startRows' = parsedRows
  /\ Proceed(IF confirms > 0 /\ itemsToProcess = NotIgnored(parsedRows)
             THEN ci ELSE 1,
             NotIgnored(parsedRows), 0, 0, <<>>, inventory)
  /\ UNCHANGED <<existing, applied>>
  /\ UNCHANGED <<step, parsedRows, fileName, editingIndex, edits, uploads, selected>>
  /\ UNCHANGED <<storeVars, offPageVars, faults, uploadVars>>

\* the Confirm Import button
ConfirmStart ==
  /\ Reviewing /\ cpc = "idle"
  /\ ~isProcessing
  /\ Len(NotIgnored(parsedRows)) # 0
  /\ Cardinality(FreeIds)
       >= Len(SelectSeq(NotIgnored(parsedRows), LAMBDA r : ~TakesUpdateBranch(r)))
  /\ itemsToProcess' = NotIgnored(parsedRows)
  /\ confirms' = confirms + 1
  /\ startInventory' = inventory
  /\ startRows' = parsedRows
  /\ Proceed(1, NotIgnored(parsedRows), 0, 0, <<>>, inventory)
  /\ UNCHANGED <<existing, applied>>
  /\ UNCHANGED <<step, parsedRows, fileName, editingIndex, edits, uploads, selected>>
  /\ UNCHANGED <<storeVars, offPageVars, faults, uploadVars>>

\* what the history keeps of a completed write: the invocation and the row,
\* the item the row's lookup had returned and the item written
Entry(kind, read) ==
  [run |-> confirms, idx |-> ci, kind |-> kind, row |-> itemsToProcess[ci],
   read |-> read, item |-> req]

\* mutant of CatalogRead: the lookup answers from the catalog as it was when
\* the loop began
CatalogReadAtStart(id) == DbGet(startInventory, id)

\* await db.inventory.get(row.matchedItemId)
CatalogRead(id) == DbGet(inventory, id)

\* mutant of SkipRow: the row is counted as updated
SkipRowCounted ==
  Proceed(ci + 1, itemsToProcess, created, updated + 1, toasts, inventory)

\* if (existing) has no else: the row is left, the loop goes on
SkipRow == Proceed(ci + 1, itemsToProcess, created, updated, toasts, inventory)

\* db.inventory.get resolves
GetResolve ==
  /\ cpc = "get"
  /\ existing' = CatalogRead(req.id)
  /\ IF existing' # NoItem
     THEN /\ cpc' = "update"
          /\ req' = UpdatedItem(existing', itemsToProcess[ci])
          /\ UNCHANGED <<ci, created, updated, toasts, route, isProcessing>>
     ELSE SkipRow
  /\ UNCHANGED <<itemsToProcess, confirms, startInventory, startRows, applied>>
  /\ UNCHANGED <<step, parsedRows, fileName, editingIndex, edits, uploads, selected>>
  /\ UNCHANGED <<storeVars, offPageVars, faults, uploadVars>>

\* db.inventory.update resolves
UpdateResolve ==
  /\ cpc = "update"
  /\ inventory' = DbPut(inventory, req)
  /\ applied' = Append(applied, Entry("update", existing))
  /\ Proceed(ci + 1, itemsToProcess, created, updated + 1, toasts, inventory')
  /\ UNCHANGED <<itemsToProcess, confirms, startInventory, startRows, existing>>
  /\ UNCHANGED <<step, parsedRows, fileName, editingIndex, edits, uploads, selected>>
  /\ UNCHANGED <<deletedIds, offPageVars, faults, uploadVars>>

\* db.inventory.add resolves
AddResolve ==
  /\ cpc = "add"
  /\ inventory' = DbPut(inventory, req)
  /\ applied' = Append(applied, Entry("add", NoItem))
  /\ Proceed(ci + 1, itemsToProcess, created + 1, updated, toasts, inventory')
  /\ UNCHANGED <<itemsToProcess, confirms, startInventory, startRows, existing>>
  /\ UNCHANGED <<step, parsedRows, fileName, editingIndex, edits, uploads, selected>>
  /\ UNCHANGED <<deletedIds, offPageVars, faults, uploadVars>>

\* mutant of ConfirmReject: the rows already written are undone
ConfirmRejectRollback ==
  /\ cpc \in {"get", "update", "add"}
  /\ Disturbances < MaxDisturbances
  /\ faults' = faults + 1
  /\ toasts' = Append(toasts, Toast("error", "processing", 0, 0))
  /\ isProcessing' = FALSE
  /\ cpc' = "idle"
  /\ req' = NoItem
  /\ inventory' = startInventory
  /\ UNCHANGED <<itemsToProcess, ci, created, updated, existing, confirms,
                 startInventory, startRows, applied>>
  /\ UNCHANGED <<deletedIds, offPageVars, pageVars, uploadVars>>

\* the awaited data-store call rejects: catch, finally
ConfirmReject ==
  /\ cpc \in {"get", "update", "add"}
  /\ Disturbances < MaxDisturbances
  /\ faults' = faults + 1
  /\ toasts' = Append(toasts, Toast("error", "processing", 0, 0))
  /\ isProcessing' = FALSE
  /\ cpc' = "idle"
  /\ req' = NoItem
  /\ UNCHANGED <<itemsToProcess, ci, created, updated, existing, confirms,
                 startInventory, startRows, applied>>
  /\ UNCHANGED <<storeVars, offPageVars, pageVars, uploadVars>>

(***************************************************************************)
(* Another session on the same store removes an item.                      *)
(***************************************************************************)
ExternalDelete(id) ==
  /\ Reviewing
  /\ Disturbances < MaxDisturbances
  /\ id \in Ids(inventory)
  /\ inventory' = DbDelete(inventory, id)
  /\ deletedIds' = deletedIds \cup {id}
  /\ UNCHANGED <<offPageVars, faults, pageVars, isProcessing, uploadVars,
                 commitVars, toasts>>

Next ==
  \/ \E f \in Files : FileSelect(f)
  \/ DecodeResolve
  \/ DecodeReject
  \/ GetAllResolve
  \/ GetAllReject
  \/ DoneEditing
  \/ \E i \in 1..2, a \in Actions : updateRowAction(i, a)
  \/ \E i \in 1..2 : EditField(i)
  \/ Back
  \/ ConfirmStart
  \/ GetResolve
  \/ UpdateResolve
  \/ AddResolve
  \/ ConfirmReject
  \/ \E id \in 1..MaxId : ExternalDelete(id)

Spec == Init /\ [][Next]_vars

\* the state of the upload page, which the specifications below leave alone
bomVars ==
  <<storeVars, catalog0, faults, isProcessing, toasts, pageVars, uploadVars,
    commitVars>>

(***************************************************************************)
(* calculateSimilarity on its own: a pair of names is scored in both       *)
(* orders of its arguments.                                                *)
(***************************************************************************)
MaxNameLen == 3       \* characters of a name handed to calculateSimilarity

SimAlphabet == {"a", "b", " "}

SimNames == UNION {[1..n -> SimAlphabet] : n \in 0..MaxNameLen}

SimInit ==
  /\ PageInit({<<>>})
  /\ \E a \in SimNames, b \in SimNames :
       simCall = [NoSimCall EXCEPT !.pc = "called", !.str1 = a, !.str2 = b]
  /\ parseCall = NoParseCall
  /\ DashboardInit

Score ==
  /\ simCall.pc = "called"
  /\ simCall' = [simCall EXCEPT
                   !.pc = "done",
                   !.forward = calculateSimilarity(simCall.str1, simCall.str2),
                   !.backward = calculateSimilarity(simCall.str2, simCall.str1)]
  /\ UNCHANGED <<bomVars, parseCall, dashVars>>

SimNext == Score

SimSpec == SimInit /\ [][SimNext]_vars

(***************************************************************************)
(* intelligentItemParser on its own: one line of the form                  *)
(* '<N> <unit> <name> @ <price>' is parsed.                                *)
(***************************************************************************)
LineQuantities == {0, 1, 10}
LineUnits == {Chars("pcs"), Chars("pieces"), Chars("nos"), Chars("units")}
LineNames ==
  {Chars("Blue Jeans"), Chars("Jeans"), Chars("Cotton Shirt"), Chars("Polo M"),
   Chars("Navy Blue Polo"), Chars("Oversized Tee"), Chars("Red"),
   Chars("Trousers 32")}
LinePrices == {45, 500}

\* the line '<N> <unit> <name> @ <price>'
Line(n, unit, name, price) ==
  Numeral(n) \o <<" ">> \o unit \o <<" ">> \o name \o Chars(" @ ")
    \o Numeral(price)

ParserInit ==
  /\ PageInit({<<>>})
  /\ simCall = NoSimCall
  /\ \E n \in LineQuantities, unit \in LineUnits, name \in LineNames,
        price \in LinePrices :
       parseCall = [NoParseCall EXCEPT
                      !.pc = "called", !.n = n, !.unit = unit, !.name = name,
                      !.price = price, !.text = Line(n, unit, name, price)]
  /\ DashboardInit

Parse ==
  /\ parseCall.pc = "called"
  /\ parseCall' = [parseCall EXCEPT
                     !.pc = "done",
                     !.items = intelligentItemParser(parseCall.text)]
  /\ UNCHANGED <<bomVars, simCall, dashVars>>

ParserNext == Parse

ParserSpec == ParserInit /\ [][ParserNext]_vars

(***************************************************************************)
(* The Dashboard: loadDashboardData over the invoices of the data store.   *)
(* An invoice is [id, createdAt, items], createdAt a time in whole units,  *)
(* an item of it [itemName, quantity].                                     *)
(***************************************************************************)
TopCount == 5

Sold(itemName, quantity) == [itemName |-> Chars(itemName), quantity |-> quantity]

InvoicePool ==
  {[id |-> 1, createdAt |-> 11, items |-> <<Sold("A", 3), Sold("B", 5)>>],
   [id |-> 2, createdAt |-> 12, items |-> <<Sold("A", 2)>>],
   [id |-> 3, createdAt |-> 13, items |-> <<Sold("7", 5)>>],
   [id |-> 4, createdAt |-> 14, items |-> <<Sold("10", 6), Sold("C", 1)>>],
   [id |-> 5, createdAt |-> 15, items |-> <<Sold("D", 1), Sold("E", 2)>>],
   [id |-> 6, createdAt |-> 16, items |-> <<Sold("07", 4)>>]}

\* what db.invoices.getAll() may return: stored invoices in any order
StoreOrders ==
  UNION {{order \in [1..n -> InvoicePool] :
            \A i, j \in 1..n : order[i] = order[j] => i = j} :
         n \in 0..Cardinality(InvoicePool)}

\* local midnight of the day on which the Dashboard is opened
Midnights == {10, 12}

\* Array.prototype.slice(0, n)
slice(s, n) == SubSeq(s, 1, IF Len(s) < n THEN Len(s) ELSE n)

\* invoices.filter(inv => new Date(inv.createdAt) >= today)
TodayInvoices(all, midnight) ==
  SelectSeq(all, LAMBDA inv : inv.createdAt >= midnight)

\* the items of the invoices in the order in which the two forEach visit them
SoldLines(invs) == Flat([i \in 1..Len(invs) |-> invs[i].items])

\* the sum that itemSales holds under a key
itemSales(lines, name) ==
  LET sum[k \in 0..Len(lines)] ==
        IF k = 0 THEN 0
        ELSE sum[k - 1] + (IF lines[k].itemName = name THEN lines[k].quantity ELSE 0)
  IN  sum[Len(lines)]

\* a property key that is an array index: a canonical numeral below 2^32 - 1;
\* the numerals of the model have at most 9 digits, all of them below it
IsIndex(name) ==
  /\ Len(name) \in 1..9
  /\ \A i \in 1..Len(name) : name[i] \in Digit
  /\ Len(name) > 1 => name[1] # "0"

\* Object.entries(itemSales).map(([name, sold]) => ({ name, sold })): the
\* keys that are array indices in ascending numeric order, then the other
\* keys in the order in which they were created
Entries(lines) ==
  LET first(name) == CHOOSE k \in 1..Len(lines) :
                       /\ lines[k].itemName = name
                       /\ \A j \in 1..(k - 1) : lines[j].itemName # name
      keys == {lines[k].itemName : k \in 1..Len(lines)}
      before(a, b) ==
        IF IsIndex(a) /\ IsIndex(b) THEN Decimal(a) < Decimal(b)
        ELSE IF IsIndex(a) # IsIndex(b) THEN IsIndex(a)
        ELSE first(a) < first(b)
      place(a) == Cardinality({b \in keys : before(b, a)}) + 1
      key(i) == CHOOSE a \in keys : place(a) = i
  IN  [i \in 1..Cardinality(keys) |->
         [name |-> key(i), sold |-> itemSales(lines, key(i))]]

\* .sort((a, b) => b.sold - a.sold): descending by sold, stable
SortBySold(es) ==
  LET rank(i) == Cardinality({j \in 1..Len(es) :
                                \/ es[j].sold > es[i].sold
                                \/ es[j].sold = es[i].sold /\ j < i}) + 1
  IN  [r \in 1..Len(es) |-> es[CHOOSE i \in 1..Len(es) : rank(i) = r]]

DashInit ==
  /\ PageInit({<<>>})
  /\ simCall = NoSimCall
  /\ parseCall = NoParseCall
  /\ invoices \in StoreOrders
  /\ today \in Midnights
  /\ summary = "null"
  /\ recentInvoices = <<>>
  /\ topSellingItems = <<>>
  /\ isLoading = TRUE

\* Promise.all resolves: the rest of the try block, finally
LoadResolve ==
  /\ isLoading
  /\ LET todayInvoices == TodayInvoices(invoices, today)
     IN  /\ summary' = "dailySummary"
         /\ recentInvoices' = slice(todayInvoices, TopCount)
         /\ topSellingItems'
              = slice(SortBySold(Entries(SoldLines(todayInvoices))), TopCount)
  /\ isLoading' = FALSE
  /\ UNCHANGED <<bomVars, simCall, parseCall, invoices, today>>

\* one of the three reads rejects: catch, finally
LoadReject ==
  /\ isLoading
  /\ isLoading' = FALSE
  /\ UNCHANGED <<bomVars, simCall, parseCall, invoices, today, summary,
                 recentInvoices, topSellingItems>>

DashNext == LoadResolve \/ LoadReject

DashSpec == DashInit /\ [][DashNext]_vars

(***************************************************************************)
(* Properties.                                                             *)
(***************************************************************************)
LastApplied == applied[Len(applied)]

\* the first variant of `variants` with the row's (size, color), 0 if none
FirstSameVariant(variants, row) ==
  IF \E k \in 1..Len(variants) :
       variants[k].size = row.size /\ variants[k].color = row.color
  THEN CHOOSE k \in 1..Len(variants) :
         /\ variants[k].size = row.size /\ variants[k].color = row.color
         /\ \A j \in 1..(k - 1) :
              ~(variants[j].size = row.size /\ variants[j].color = row.color)
  ELSE 0

OtherItems(inv, id) == SelectSeq(inv, LAMBDA e : e.id # id)

\* C1: every parsed row whose action is 'update' carries a matchedItemId that
\* references an item of the catalog (items another session removed after the
\* match are let pass here).
C1_UpdateRowsReferenceCatalog ==
  \A i \in 1..Len(parsedRows) :
    parsedRows[i].action = "update"
      => parsedRows[i].matchedItemId \in Ids(inventory) \cup deletedIds

\* C2: when the update of a row whose lookup found its item completes, the
\* stored item is the item found with the first variant of the row's
\* (size, color) raised by the row's quantity and no variant added, or, when
\* there is no such variant, with one variant (size, color, quantity) appended;
\* the item's other variants and the other catalog items are as before.
C2_UpdateMergesOrAppends ==
  [][(cpc = "update" /\ updated' = updated + 1) =>
       LET row == itemsToProcess[ci]
           k == FirstSameVariant(existing.variants, row)
           now == DbGet(inventory', existing.id)
       IN  /\ now # NoItem
           /\ IF k > 0
              THEN /\ Len(now.variants) = Len(existing.variants)
                   /\ now.variants[k].stock
                        = existing.variants[k].stock + row.quantity
                   /\ now.variants[k].size = row.size
                   /\ now.variants[k].color = row.color
                   /\ \A j \in 1..Len(existing.variants) :
                        j # k => now.variants[j] = existing.variants[j]
              ELSE now.variants
                     = existing.variants
                         \o <<[size |-> row.size, color |-> row.color,
                               stock |-> row.quantity]>>
           /\ OtherItems(inventory', existing.id)
                = OtherItems(inventory, existing.id)]_vars

\* C2 witness: an update has just completed on an item that holds two variants
\* of the row's (size, color) and a third one.
C2_Witness ==
  /\ applied # <<>>
  /\ LastApplied.kind = "update"
  /\ LET e == LastApplied
         k == FirstSameVariant(e.read.variants, e.row)
     IN  /\ k > 0
         /\ Len(e.read.variants) >= 3
         /\ \E j \in (k + 1)..Len(e.read.variants) :
              /\ e.read.variants[j].size = e.row.size
              /\ e.read.variants[j].color = e.row.color
         /\ DbGet(inventory, e.item.id) = e.item

\* C3: when the add of a row whose action is 'create' completes, the catalog
\* holds exactly one more item: one variant with the row's quantity as stock,
\* category 'General', taxRate 12, lowStockThreshold 5, purchasePrice the
\* row's unitCost, sellingPrice the integer nearest to unitCost * 1.4 when
\* unitCost > 0 and 0 otherwise; the items stored before are as they were.
C3_CreateAddsOneItem ==
  [][(cpc = "add" /\ created' = created + 1
        /\ itemsToProcess[ci].action = "create") =>
       LET row == itemsToProcess[ci]
           added == {k \in 1..Len(inventory') :
                       inventory'[k].id \notin Ids(inventory)}
       IN  /\ Len(inventory') = Len(inventory) + 1
           /\ Cardinality(added) = 1
           /\ \A k \in added :
                LET new == inventory'[k]
                IN  /\ OtherItems(inventory', new.id) = inventory
                    /\ new.name = row.name
                    /\ Len(new.variants) = 1
                    /\ new.variants[1].stock = row.quantity
                    /\ new.variants[1].size = row.size
                    /\ new.variants[1].color = row.color
                    /\ new.category = "General"
                    /\ new.taxRate = 12
                    /\ new.lowStockThreshold = 5
                    /\ new.purchasePrice = row.unitCost
                    /\ IF row.unitCost > 0
                       THEN /\ 10 * new.sellingPrice - 5 <= 14 * row.unitCost
                            /\ 14 * row.unitCost < 10 * new.sellingPrice + 5
                       ELSE new.sellingPrice = 0]_vars

\* C3 witness: a 'create' row with a positive unitCost has just been added
\* while the catalog already held an item of the same name, which is unchanged.
C3_Witness ==
  /\ applied # <<>>
  /\ LastApplied.kind = "add"
  /\ LastApplied.row.action = "create"
  /\ LastApplied.row.unitCost > 0
  /\ DbGet(inventory, LastApplied.item.id) = LastApplied.item
  /\ \E k \in 1..Len(inventory) :
       /\ inventory[k].id # LastApplied.item.id
       /\ toLowerCase(inventory[k].name) = toLowerCase(LastApplied.row.name)
       /\ DbGet(startInventory, inventory[k].id) = inventory[k]

\* C4: when the lookup of an 'update' row finds no item, the row is skipped:
\* the catalog and both counters stay as they are, no error is raised, and
\* the loop goes on to the next row or, after the last one, ends in success.
C4_MissingItemSkipsRow ==
  [][(cpc = "get" /\ req.id \notin Ids(inventory)
        /\ (cpc' # cpc \/ ci' # ci) /\ faults' = faults) =>
       /\ inventory' = inventory
       /\ applied' = applied
       /\ created' = created
       /\ updated' = updated
       /\ ci' = ci + 1
       /\ \A t \in 1..Len(toasts') : toasts'[t].kind # "error"
       /\ IF ci < Len(itemsToProcess)
          THEN cpc' \in {"get", "add"} /\ isProcessing'
          ELSE /\ cpc' = "idle"
               /\ route' = "inventory"
               /\ toasts' = <<Toast("success", "done", created, updated)>>]_vars

\* C4 witness: the loop is past a row whose matched item another session had
\* removed, nothing was written for that row, and a later row is in progress.
C4_Witness ==
  /\ cpc \in {"get", "update", "add"}
  /\ ci >= 2
  /\ TakesUpdateBranch(itemsToProcess[ci - 1])
  /\ itemsToProcess[ci - 1].matchedItemId \in deletedIds
  /\ \A k \in 1..Len(applied) :
       ~(applied[k].run = confirms /\ applied[k].idx = ci - 1)
  /\ created + updated = ci - 2

\* the catalog and the counters after the rows are committed in order, one
\* after the other, with no failure
RECURSIVE CommitAll(_, _)
CommitAll(st, rows) ==
  IF rows = <<>> THEN st
  ELSE LET row == Head(rows)
           found == DbGet(st.inv, row.matchedItemId)
           next ==
             IF TakesUpdateBranch(row)
             THEN IF found # NoItem
                  THEN [st EXCEPT !.inv = DbPut(st.inv, UpdatedItem(found, row)),
                                  !.updated = @ + 1]
                  ELSE st
             ELSE [st EXCEPT !.inv = DbPut(st.inv, NewItem(row, uuidv4(st.inv))),
                             !.created = @ + 1]
       IN  CommitAll(next, Tail(rows))

Committed(inv, rows) == CommitAll([inv |-> inv, created |-> 0, updated |-> 0], rows)

WithoutIgnored(rows) == SelectSeq(rows, LAMBDA r : r.action # "ignore")

\* C5: when handleConfirm has ended in success (no item having been removed
\* meanwhile), the catalog and both counters are those of committing the
\* list with its 'ignore' rows removed.
C5_IgnoredRowsHaveNoEffect ==
  (route = "inventory" /\ deletedIds = {}) =>
    LET out == Committed(startInventory, WithoutIgnored(startRows))
    IN  /\ inventory = out.inv
        /\ created = out.created
        /\ updated = out.updated
        /\ \A k \in 1..Len(applied) : applied[k].row.action # "ignore"

\* C5 witness: a commit of a list with an 'ignore' row and another row has
\* ended in success and changed the catalog.
C5_Witness ==
  /\ route = "inventory"
  /\ deletedIds = {}
  /\ \E i \in 1..Len(startRows) : startRows[i].action = "ignore"
  /\ WithoutIgnored(startRows) # <<>>
  /\ inventory # startInventory

\* two successive completed updates that are the same row of the same list in
\* two invocations of handleConfirm, the row matching a variant of its item
SameRowTwice(i) ==
  /\ i \in 1..(Len(applied) - 1)
  /\ applied[i].kind = "update"
  /\ applied[i + 1].kind = "update"
  /\ applied[i].run # applied[i + 1].run
  /\ applied[i].idx = applied[i + 1].idx
  /\ applied[i].row = applied[i + 1].row
  /\ FirstSameVariant(applied[i].read.variants, applied[i].row) > 0

\* C6: when handleConfirm runs twice on the same 'update' row matching a
\* variant, the variant's stock after the second run is its stock before the
\* first run plus twice the row's quantity.
C6_CommitIsAdditive ==
  \A i \in 1..Len(applied) :
    SameRowTwice(i) =>
      LET row == applied[i].row
          k == FirstSameVariant(applied[i].read.variants, row)
      IN  applied[i + 1].item.variants[k].stock
            = applied[i].read.variants[k].stock + 2 * row.quantity

\* C6 witness: the same 'update' row has been written by two invocations and
\* the catalog holds the second write.
C6_Witness ==
  \E i \in 1..Len(applied) :
    /\ SameRowTwice(i)
    /\ applied[i].row.quantity # 0
    /\ DbGet(inventory, applied[i + 1].item.id) = applied[i + 1].item

\* C7: when a data-store call of handleConfirm rejects at row k, the catalog
\* is left as rows 1..k-1 made it (nothing undone, nothing of the later rows
\* applied), the one notification raised is the generic error, there is no
\* navigation, isProcessing is false and the loop is over.
C7_FailureKeepsEarlierRows ==
  [][(cpc \in {"get", "update", "add"} /\ faults' = faults + 1) =>
       /\ inventory' = inventory
       /\ applied' = applied
       /\ deletedIds = {} =>
            inventory'
              = Committed(startInventory, SubSeq(itemsToProcess, 1, ci - 1)).inv
       /\ \A k \in 1..Len(applied) :
            applied[k].run = confirms => applied[k].idx < ci
       /\ toasts' = <<Toast("error", "processing", 0, 0)>>
       /\ route' = "upload"
       /\ isProcessing' = FALSE
       /\ cpc' = "idle"]_vars

\* C7 witness: handleConfirm failed at its second row after the first row
\* changed the catalog.
C7_Witness ==
  /\ cpc = "idle"
  /\ faults = 1
  /\ toasts = <<Toast("error", "processing", 0, 0)>>
  /\ ci = 2
  /\ Len(itemsToProcess) = 2
  /\ inventory # startInventory
  /\ inventory = Committed(startInventory, SubSeq(itemsToProcess, 1, 1)).inv
  /\ ~isProcessing
  /\ route = "upload"

\* two completed updates of one invocation on the same item, no write to that
\* item between them
SuccessiveUpdates(i, j) ==
  /\ i \in 1..Len(applied) /\ j \in 1..Len(applied) /\ i < j
  /\ applied[i].run = applied[j].run
  /\ applied[i].kind = "update" /\ applied[j].kind = "update"
  /\ applied[i].item.id = applied[j].item.id
  /\ \A m \in (i + 1)..(j - 1) : applied[m].item.id # applied[i].item.id

\* C8: the writes of one invocation complete in row order, each before the
\* next row's call is made (so the row whose call is awaited has no write
\* yet), and a later row on the same item reads what the earlier row wrote:
\* two update rows on the same variant add both quantities.
C8_SequentialLoop ==
  /\ \A i \in 1..Len(applied) : \A j \in 1..Len(applied) :
       i < j =>
         /\ applied[i].run <= applied[j].run
         /\ applied[i].run = applied[j].run => applied[i].idx < applied[j].idx
  /\ \A i \in 1..Len(applied) :
       applied[i].run = confirms => applied[i].idx < ci
  /\ \A i \in 1..Len(applied) : \A j \in 1..Len(applied) :
       (SuccessiveUpdates(i, j) /\ applied[i].item.id \notin deletedIds) =>
         /\ applied[j].read = applied[i].item
         /\ LET ri == applied[i].row
                rj == applied[j].row
                k == FirstSameVariant(applied[i].read.variants, ri)
            IN  (k > 0 /\ ri.size = rj.size /\ ri.color = rj.color) =>
                  applied[j].item.variants[k].stock
                    = applied[i].read.variants[k].stock
                        + ri.quantity + rj.quantity

\* C8 witness: two update rows of one invocation have been written to the same
\* variant of the same item.
C8_Witness ==
  \E i \in 1..Len(applied) : \E j \in 1..Len(applied) :
    /\ SuccessiveUpdates(i, j)
    /\ applied[i].row.size = applied[j].row.size
    /\ applied[i].row.color = applied[j].row.color
    /\ FirstSameVariant(applied[i].read.variants, applied[i].row) > 0
    /\ DbGet(inventory, applied[j].item.id) = applied[j].item

\* the step in which getAll resolves and the decoded rows are matched
Matching == upc = "getAll" /\ upc' = "idle" /\ faults' = faults

EqualIgnoringCase(a, b) ==
  /\ Len(a) = Len(b)
  /\ \A i \in 1..Len(a) : Lower(a[i]) = Lower(b[i])

\* the three rules of the matcher for a row and a catalog item
SatisfiesARule(row, it) ==
  LET score == calculateSimilarity(toLowerCase(row.name), toLowerCase(it.name))
  IN  \/ EqualIgnoringCase(row.name, it.name)
      \/ 10 * score.num > 7 * score.den
      \/ row.sku # <<>> /\ it.sku # <<>> /\ EqualIgnoringCase(row.sku, it.sku)

Candidates(row, cat) == {k \in 1..Len(cat) : SatisfiesARule(row, cat[k])}

SameName(row, cat) ==
  {k \in 1..Len(cat) : EqualIgnoringCase(row.name, cat[k].name)}

C12_RowsHavePositiveQuantity ==
  \A i \in 1..Len(parsedRows) :
    parsedRows[i].quantity >= 1 /\ parsedRows[i].unitCost >= 0

NonNegativeStock(inv) ==
  \A k \in 1..Len(inv) : \A v \in 1..Len(inv[k].variants) :
    inv[k].variants[v].stock >= 0

\* C13: from a catalog whose variants all have stock >= 0, every variant of
\* every catalog item has stock >= 0 after any uploads, edits and commits.
C13_StockStaysNonNegative ==
  NonNegativeStock(catalog0) => NonNegativeStock(inventory)

\* the step in which a handleFileSelect ends after raising an error
FailedSelect ==
  /\ upc' = "idle"
  /\ uploads' # uploads \/ upc # "idle"
  /\ toasts' # <<>>
  /\ toasts'[Len(toasts')].kind = "error"

\* C14: when handleFileSelect ends on an unsupported file or on a failure of
\* decoding or matching, an error notification is raised, the wizard is at
\* 'select', isProcessing is false, and parsedRows, fileName and step are as
\* they were before the file was selected.
C14_FailedSelectKeepsNothing ==
  [][FailedSelect =>
       /\ step' = "select"
       /\ ~isProcessing'
       /\ parsedRows' = selected'.parsedRows
       /\ fileName' = selected'.fileName
       /\ step' = selected'.step]_vars

\* handleConfirm has completed without error: the success notification of its
\* last invocation is up
Succeeded ==
  /\ confirms > 0 /\ cpc = "idle"
  /\ toasts # <<>>
  /\ toasts[Len(toasts)].msg = "done"

Count(S) == Cardinality(S)

\* C19: when handleConfirm completes without error, created is the number of
\* rows whose action is 'create' and the number of items added, updated is the
\* number of 'update' rows whose item was found and written, and no item was
\* ever added for a row whose action is 'update' or 'ignore'.
C19_CountsReflectActions ==
  Succeeded =>
    LET report == toasts[Len(toasts)]
        mine == {k \in 1..Len(applied) : applied[k].run = confirms}
    IN  /\ report.created
             = Count({i \in 1..Len(startRows) : startRows[i].action = "create"})
        /\ report.created = Count({k \in mine : applied[k].kind = "add"})
        /\ report.updated = Count({k \in mine : applied[k].kind = "update"})
        /\ \A k \in 1..Len(applied) :
             applied[k].kind = "add" => applied[k].row.action = "create"

UniqueVariants(inv) ==
  \A k \in 1..Len(inv) : \A v, w \in 1..Len(inv[k].variants) :
    (/\ inv[k].variants[v].size = inv[k].variants[w].size
     /\ inv[k].variants[v].color = inv[k].variants[w].color) => v = w

\* C20: if every catalog item has at most one variant per (size, color) when
\* handleConfirm is invoked, so has every catalog item during and after it.
C20_CommitKeepsVariantsUnique ==
  (confirms > 0 /\ UniqueVariants(startInventory)) => UniqueVariants(inventory)

\* two update rows of one commit added the same new (size, color) to the same
\* item, and the commit has completed
C20_Witness ==
  /\ Succeeded
  /\ UniqueVariants(startInventory)
  /\ \E i, j \in 1..Len(applied) :
       /\ i < j
       /\ applied[i].run = confirms /\ applied[j].run = confirms
       /\ applied[i].kind = "update" /\ applied[j].kind = "update"
       /\ applied[i].item.id = applied[j].item.id
       /\ applied[i].row.size = applied[j].row.size
       /\ applied[i].row.color = applied[j].row.color
       /\ FirstSameVariant(applied[i].read.variants, applied[i].row) = 0
       /\ Len(applied[j].item.variants) = Len(applied[i].item.variants)

\* the step in which a data-store call of handleConfirm rejects
FailedCommit == cpc \in {"get", "update", "add"} /\ faults' = faults + 1

\* the step in which Confirm is pressed after an earlier invocation
RetryStart == confirms >= 1 /\ confirms' = confirms + 1

\* the write i of the previous invocation is of a row that the list of the
\* current invocation still holds at the same place, the current invocation is
\* past that row, and no other session removed the item written
PassedAgain(i) ==
  /\ i \in 1..Len(applied)
  /\ confirms >= 2
  /\ applied[i].run = confirms - 1
  /\ applied[i].idx < ci
  /\ applied[i].idx <= Len(itemsToProcess)
  /\ itemsToProcess[applied[i].idx] = applied[i].row
  /\ applied[i].item.id \notin deletedIds

\* the write j is the write i made again by the following invocation: an
\* update adds the row's quantity to the row's variant of the item as the
\* catalog then holds it (the item as write i left it, if nothing wrote it
\* in between), an add stores a second item under another id
AppliedAgain(i, j) ==
  /\ j \in (i + 1)..Len(applied)
  /\ applied[j].run = applied[i].run + 1
  /\ applied[j].idx = applied[i].idx
  /\ applied[j].row = applied[i].row
  /\ applied[j].kind = applied[i].kind
  /\ IF applied[j].kind = "update"
     THEN LET row == applied[j].row
              k == FirstSameVariant(applied[j].read.variants, row)
          IN  /\ applied[j].item.id = applied[i].item.id
              /\ k > 0
              /\ Len(applied[j].item.variants) = Len(applied[j].read.variants)
              /\ applied[j].item.variants[k].stock
                   = applied[j].read.variants[k].stock + row.quantity
              /\ (\A m \in (i + 1)..(j - 1) :
                    applied[m].item.id # applied[i].item.id) =>
                   applied[j].read = applied[i].item
     ELSE /\ applied[j].item.id # applied[i].item.id
          /\ applied[j].item = NewItem(applied[j].row, applied[j].item.id)
          /\ applied[j].item.id \notin deletedIds =>
               (/\ DbGet(inventory, applied[i].item.id) # NoItem
                /\ DbGet(inventory, applied[j].item.id) # NoItem)

\* the rows of the previous invocation that the current one is past have all
\* been written again
Reapplied ==
  \A i \in 1..Len(applied) :
    PassedAgain(i) => \E j \in 1..Len(applied) : AppliedAgain(i, j)

C18_FallbackToLineParser ==
  [][(upc = "decode" /\ upc' = "getAll") =>
       /\ urows' = IF Len(ColumnRows(ufile.json)) = 0
                   THEN intelligentItemParser(ufile.text)
                   ELSE ColumnRows(ufile.json)
       /\ (/\ Len(ColumnRows(ufile.json)) = 0
           /\ ufile.text = Chars("1. Blue Jeans Size 32 - Qty 10 - Rs.850"))
          => /\ Len(urows') = 1
             /\ urows'[1].name = Chars("Blue Jeans")
             /\ urows'[1].quantity = 10
             /\ urows'[1].unitCost = 850
             /\ urows'[1].size = Chars("32")]_vars

(***************************************************************************)
(* calculateSimilarity (SimSpec).                                          *)
(***************************************************************************)
SameScore(x, y) == x.num * y.den = y.num * x.den

\* C11: calculateSimilarity is symmetric: a pair of names gets the same score
\* in both orders of the arguments.
C11_SimilarityIsSymmetric ==
  simCall.pc = "done" => SameScore(simCall.forward, simCall.backward)


(***************************************************************************)
(* intelligentItemParser (ParserSpec).                                     *)
(***************************************************************************)
\* C17 as stated: every line '<N> <unit> <name> @ <price>' yields a row with
\* quantity N, unitCost price and name <name>.
C17_LineYieldsItsName ==
  parseCall.pc = "done" =>
    \E i \in 1..Len(parseCall.items) :
      /\ parseCall.items[i].quantity = parseCall.n
      /\ parseCall.items[i].unitCost = parseCall.price
      /\ parseCall.items[i].name = parseCall.name

Letters == {LowerLetters[i] : i \in 1..26} \cup {UpperLetters[i] : i \in 1..26}

\* words of letters, one space between them
LetterWords(name) ==
  /\ \A i \in 1..Len(name) : name[i] \in Letters \cup {" "}
  /\ \A i \in 1..Len(split(name)) : split(name)[i] # <<>>

RECURSIVE Join(_)
Join(ws) ==
  IF Len(ws) = 0 THEN <<>>
  ELSE IF Len(ws) = 1 THEN ws[1]
  ELSE ws[1] \o <<" ">> \o Join(Tail(ws))

\* name with its words that equal size or color, ignoring case, deleted
WithoutWords(name, size, color) ==
  LET ws == split(name)
      gone(w) == \/ size # <<>> /\ toLowerCase(w) = toLowerCase(size)
                 \/ color # <<>> /\ toLowerCase(w) = toLowerCase(color)
  IN  trim(Join([i \in 1..Len(ws) |-> IF gone(ws[i]) THEN <<>> ELSE ws[i]]))

SizeAndColorWords ==
  {Chars(w) : w \in {"xxs", "xs", "s", "m", "l", "xl", "xxl", "xxxl", "red",
                     "blue", "green", "yellow", "black", "white", "pink",
                     "purple", "orange", "brown", "grey", "gray", "navy",
                     "maroon", "beige", "cream", "gold", "silver"}}

\* a name in which the parser finds neither a size nor a color
PlainName(name) ==
  /\ \A i \in 1..Len(split(name)) :
       toLowerCase(split(name)[i]) \notin SizeAndColorWords
  /\ \A w \in {Chars("size"), Chars("color"), Chars("colour")} :
       ~includes(toLowerCase(name), w)

\* C17, amended: for a line '<N> <unit> <name> @ <price>' with N >= 1 and
\* <name> made of words of letters, the parser yields at most one row; the row
\* has quantity N, unitCost price, and as its name <name> without the words
\* that equal the row's size or color; a name of two or more characters in
\* which no size and no color is found yields a row with that name.
C17_LineYieldsNameWithoutSizeAndColor ==
  (parseCall.pc = "done" /\ parseCall.n >= 1 /\ LetterWords(parseCall.name)) =>
    LET items == parseCall.items
    IN  /\ Len(items) <= 1
        /\ Len(items) = 1 =>
             /\ items[1].quantity = parseCall.n
             /\ items[1].unitCost = parseCall.price
             /\ items[1].name
                  = WithoutWords(parseCall.name, items[1].size, items[1].color)
        /\ (PlainName(parseCall.name) /\ Len(parseCall.name) >= 2) =>
             /\ Len(items) = 1
             /\ items[1].name = parseCall.name

\* '10 pcs Blue Jeans @ 500' has been parsed: the row's name is 'Jeans'
C17_Witness ==
  /\ parseCall.pc = "done"
  /\ parseCall.text = Chars("10 pcs Blue Jeans @ 500")
  /\ Len(parseCall.items) = 1
  /\ parseCall.items[1].name = Chars("Jeans")
  /\ parseCall.items[1].color = Chars("Blue")
  /\ parseCall.items[1].quantity = 10
  /\ parseCall.items[1].unitCost = 500

(***************************************************************************)
(* The Dashboard (DashSpec).                                               *)
(***************************************************************************)
\* the names of the lines in the order in which they are first encountered
RECURSIVE FirstEncounters(_, _)
FirstEncounters(lines, seen) ==
  IF Len(lines) = 0 THEN <<>>
  ELSE IF Head(lines).itemName \in seen THEN FirstEncounters(Tail(lines), seen)
  ELSE <<Head(lines).itemName>>
         \o FirstEncounters(Tail(lines), seen \cup {Head(lines).itemName})

\* C15: topSellingItems holds, for each distinct item name of today's
\* invoices, the sum of its line quantities, sorted by that sum descending,
\* equal sums in the order in which the names are first encountered, and
\* truncated to at most 5 entries; also for names that are strings of digits.
C15_TopSellingItemsRanked ==
  summary # "null" =>
    LET lines == SoldLines(TodayInvoices(invoices, today))
        names == FirstEncounters(lines, {})
        total(name) == itemSales(lines, name)
        rank(i) == Cardinality({j \in 1..Len(names) :
                                  \/ total(names[j]) > total(names[i])
                                  \/ total(names[j]) = total(names[i]) /\ j < i}) + 1
        count == IF Len(names) < 5 THEN Len(names) ELSE 5
    IN  /\ Len(topSellingItems) = count
        /\ \A i \in 1..Len(names) :
             rank(i) <= 5 =>
               topSellingItems[rank(i)] = [name |-> names[i], sold |-> total(names[i])]

\* C16: after loadDashboardData, recentInvoices contains exactly the (up to)
\* 5 invoices with the latest createdAt among the invoices created at or
\* after local midnight today, whatever the order in which the store returns
\* its invoices.
C16_RecentInvoicesAreLatest ==
  summary # "null" =>
    LET ofToday == {inv \in InvoicePool :
                     /\ \E i \in 1..Len(invoices) : invoices[i] = inv
                     /\ inv.createdAt >= today}
        recent == {recentInvoices[i] : i \in 1..Len(recentInvoices)}
    IN  /\ recent \subseteq ofToday
        /\ Cardinality(recent) = Len(recentInvoices)
        /\ Len(recentInvoices)
             = (IF Cardinality(ofToday) < 5 THEN Cardinality(ofToday) ELSE 5)
        /\ \A inv \in recent, other \in ofToday \ recent :
             other.createdAt <= inv.createdAt

====
